---------------------------- MODULE Spec2Model ----------------------------
(***************************************************************************)
(* A model of the fractal clock (src/src/fractal_clock.rs) and of its host *)
(* application (src/src/main.rs).                                          *)
(*                                                                         *)
(* Numbers.  The program computes in f32; the model computes the same      *)
(* expressions in exact fixed point, over parameter values for which the   *)
(* exact value and the f32 value select the same branch and round to the   *)
(* same 8-bit channel:                                                     *)
(*   - zoom, length_factor and width_factor are counted in quarters;       *)
(*   - luminance_factor is a fraction [n, d];                              *)
(*   - logical coordinates are counted in 1/Unit, screen coordinates in    *)
(*     1/Pix of the clip rectangle's size unit;                            *)
(*   - angles are counted in 1/Turn of a full turn, and the clock is read  *)
(*     every ClockStep seconds, when all hands stand on a quarter turn, so *)
(*     that sines and cosines are -1, 0 or 1.                              *)
(* A NaN coordinate (zoom = 0 divides by zero) is kept as a NaN point.     *)
(***************************************************************************)
EXTENDS Integers, Sequences, FiniteSets, TLC

(***************************************************************************)
(* Bounds of the model.                                                    *)
(***************************************************************************)
\* Largest depth the depth slider is moved to in Spec and SpecRender.
MaxDepth == 3
\* Number of distinct later readings of the system clock.
MaxClock == 1
\* Number of user interactions (a widget changed, the window resized) in a run of Spec.
MaxInputs == 1

(***************************************************************************)
(* Program constants.                                                      *)
(***************************************************************************)
\* Slider::new(&mut self.config.depth, 0..=20)
SliderMaxDepth == 20
\* Default depth of FractalClockConfig.
ConfigDefaultDepth == 15

Min(a, b) == IF a <= b THEN a ELSE b
Max(a, b) == IF a >= b THEN a ELSE b

RECURSIVE Pow(_, _)
Pow(b, e) == IF e = 0 THEN 1 ELSE b * Pow(b, e - 1)

\* A fraction n/d, d > 0.
Frac(n, d) == [n |-> n, d |-> d]
FracLess(a, b) == a.n * b.d < b.n * a.d

(***************************************************************************)
(* Colours.  A Color32 is [kind |-> "srgba", v |-> <<r, g, b, a>>] with    *)
(* 8-bit channels.  A colour that the program obtains by converting an     *)
(* Hsva is kept as the Hsva it converts, [kind |-> "hsva", v, den]: the    *)
(* components v are numerators over 2 * den (Hsva components are counted   *)
(* in halves).                                                             *)
(***************************************************************************)
Color32(r, g, b, a) == [kind |-> "srgba", v |-> <<r, g, b, a>>, den |-> 1]
FromHsva(hsva, den) == [kind |-> "hsva", v |-> hsva, den |-> den]

WHITE == Color32(255, 255, 255, 255)
DefaultBranchColor == Color32(115, 186, 37, 255)
\* Hsva::new(0.0, 100.0, 100.0, 1.0) and Hsva::new(240.0, 100.0, 100.0, 1.0), in halves
DefaultStartHsv == <<0, 200, 200, 2>>
DefaultEndHsv == <<480, 200, 200, 2>>

\* const MIN_LUMINANCE: f32 = 0.5 / 255.0
MIN_LUMINANCE == Frac(5, 2550)
\* let mut luminance = 0.7
StartLuminance == Frac(7, 10)

\* f32::round (half away from zero) of n/d as u8, n >= 0
RoundU8(n, d) == Min(255, (2 * n + d) \div (2 * d))

\* multiply_color(c / 255.0, factor) = (c / 255.0 * factor * 255.0).round() as u8
MultiplyColor(c, factor) == RoundU8(c * factor.n, factor.d)

\* luminance.min(1.0)
FracMin1(l) == IF l.n > l.d THEN Frac(1, 1) ELSE l

\* egui::lerp(start..=end, t) for t = i / den, as a numerator over den
LerpNum(start, end, i, den) == (den - i) * start + i * end

\* One entry of the rainbow schedule (lines 70-80).
RainbowColor(config, depth_index) ==
    LET den == Max(config.depth, 1)
    IN  FromHsva([k \in 1..4 |->
                    LerpNum(config.start_hsv[k], config.end_hsv[k], depth_index, den)],
                 den)

\* One entry of the solid schedule (lines 91-96).
SolidColor(config, luminance) ==
    LET factor == FracMin1(luminance)
        c == config.branch_color.v
    IN  Color32(MultiplyColor(c[1], factor), MultiplyColor(c[2], factor),
                MultiplyColor(c[3], factor), RoundU8(c[4], 1))

\* A variant of the early exit with a ten times higher floor in rainbow mode.
BelowMinimumRainbowTenfold(config, luminance) ==
    FracLess(luminance, IF config.rainbow_mode THEN Frac(5, 255) ELSE MIN_LUMINANCE)

\* if luminance < MIN_LUMINANCE { break; }, in the loop of either mode
BelowMinimum(config, luminance) == FracLess(luminance, MIN_LUMINANCE)

\* The loop of update_colors from depth_index on; luminance is the value
\* before this iteration's multiplication.
RECURSIVE ColorLoop(_, _, _)
ColorLoop(config, depth_index, luminance) ==
    IF depth_index >= config.depth THEN <<>>
    ELSE LET l == Frac(luminance.n * config.luminance_factor.n,
                       luminance.d * config.luminance_factor.d)
         IN  IF BelowMinimum(config, l) THEN <<>>
             ELSE <<IF config.rainbow_mode
                    THEN RainbowColor(config, depth_index)
                    ELSE SolidColor(config, l)>>
                  \o ColorLoop(config, depth_index + 1, l)

\* A variant of update_colors that leaves the schedule in the opposite order.
UpdateColorsReversed(config) ==
    LET colors == ColorLoop(config, 0, StartLuminance)
    IN  [k \in 1..Len(colors) |-> colors[Len(colors) + 1 - k]]

\* FractalClockRendering::update_colors: the new depth_colors.
UpdateColors(config) == ColorLoop(config, 0, StartLuminance)


(***************************************************************************)
(* Time.  A DateTime<Local> is a number of seconds since the Unix epoch;   *)
(* the local time zone is taken to be UTC and the sub-second part to be 0. *)
(***************************************************************************)
\* DateTime::<Local>::default(), the value a #[serde(skip)] time field gets
Epoch == 0
\* Seconds between two readings of the system clock that differ.
ClockStep == 3 * 3600
\* The first reading of the system clock: a midnight after the epoch.
ClockStart == 24 * 3600
ClockSamples == {ClockStart + k * ClockStep : k \in 0..MaxClock}

\* Timelike::hour, minute, second, nanosecond
Hour(time) == (time \div 3600) % 24
Minute(time) == (time \div 60) % 60
Second(time) == time % 60

(***************************************************************************)
(* Geometry.                                                               *)
(***************************************************************************)
\* Angle units in a full turn (TAU): one unit is the hour hand's second.
Turn == 12 * 3600
\* Logical coordinates are counted in 1/Unit: every product of MaxDepth + 1
\* lengths in quarters, and a third of it (zoom 3/4), is a whole number.
Unit == 3 * Pow(4, MaxDepth + 1)
\* Screen coordinates are counted in 1/Pix.
Pix == 4 * Unit

\* (cos, sin) of an angle that is a whole number of quarter turns
CosSin(angle) ==
    CASE angle % Turn = 0 -> <<1, 0>>
      [] angle % Turn = Turn \div 4 -> <<0, 1>>
      [] angle % Turn = Turn \div 2 -> <<-1, 0>>
      [] angle % Turn = 3 * (Turn \div 4) -> <<0, -1>>

\* Hand::from_length_angle: length in quarters, vec = length * Vec2::angled(angle)
FromLengthAngle(length, angle) ==
    [length |-> length, angle |-> angle,
     vec |-> <<(length * CosSin(angle)[1] * Unit) \div 4,
               (length * CosSin(angle)[2] * Unit) \div 4>>]

\* FractalClock::create_hands: seconds, minutes and hours are kept as the
\* angle they sweep, TAU * seconds / 60 = 720 units a second, and so on.
CreateHands(c) ==
    LET seconds == Second(c.time)
        minutes == 60 * Minute(c.time) + seconds
        hours == 3600 * Hour(c.time) + minutes
    IN  <<FromLengthAngle(c.config.length_factor, 720 * seconds - Turn \div 4),
          FromLengthAngle(c.config.length_factor, 12 * minutes - Turn \div 4),
          FromLengthAngle(2, hours - Turn \div 4)>>

\* base_rotation: hand.length * Rot2::from_angle(hand.angle - hour.angle + TAU / 2),
\* c and s in quarters
BaseRotation(hand, hour) ==
    LET cs == CosSin(hand.angle - hour.angle + Turn \div 2)
    IN  [c |-> hand.length * cs[1], s |-> hand.length * cs[2]]

\* A variant of calculate_hand_rotors with the second hand's rotor alone.
CalculateHandRotorsSecondOnly(hands) == <<BaseRotation(hands[1], hands[3])>>

\* FractalClock::calculate_hand_rotors
CalculateHandRotors(hands) ==
    <<BaseRotation(hands[1], hands[3]), BaseRotation(hands[2], hands[3])>>

\* Rot2 * Vec2
Rotate(rotor, v) ==
    <<(rotor.c * v[1] - rotor.s * v[2]) \div 4,
      (rotor.s * v[1] + rotor.c * v[2]) \div 4>>

\* A clip rectangle of w by h size units with its corner at the origin.
ScreenRect(w, h) == [min |-> <<0, 0>>, max |-> <<w * Pix, h * Pix>>]
Rects == {ScreenRect(2, 1), ScreenRect(1, 1)}

Width(rect) == rect.max[1] - rect.min[1]
Height(rect) == rect.max[2] - rect.min[2]

\* Rect::square_proportions
SquareProportions(rect) ==
    IF Width(rect) > Height(rect)
    THEN <<Frac(Width(rect), Height(rect)), Frac(1, 1)>>
    ELSE <<Frac(1, 1), Frac(Height(rect), Width(rect))>>

\* Rect::from_center_size(Pos2::ZERO, rect.square_proportions() / zoom) in
\* logical units; with zoom = 0 the size is infinite.
FromRect(rect, zoom) ==
    IF zoom = 0 THEN [infinite |-> TRUE, min |-> <<0, 0>>, max |-> <<0, 0>>]
    ELSE LET sp == SquareProportions(rect)
             sx == (sp[1].n * 4 * Unit) \div (sp[1].d * zoom)
             sy == (sp[2].n * 4 * Unit) \div (sp[2].d * zoom)
         IN  [infinite |-> FALSE,
              min |-> <<0 - sx \div 2, 0 - sy \div 2>>,
              max |-> <<sx \div 2, sy \div 2>>]

\* emath::remap(x, from, to) = lerp(to, (x - from.start) / (from.end - from.start))
Remap(x, f0, f1, t0, t1) == t0 + ((x - f0) * (t1 - t0)) \div (f1 - f0)

\* to_screen * pos, for to_screen = RectTransform::from_to(from, rect).  With an
\* infinite from rectangle the quotient is inf / inf: the point is NaN.
ToScreen(from, rect, pos) ==
    IF from.infinite THEN [nan |-> TRUE, p |-> <<0, 0>>]
    ELSE [nan |-> FALSE,
          p |-> <<Remap(pos[1], from.min[1], from.max[1], rect.min[1], rect.max[1]),
                  Remap(pos[2], from.min[2], from.max[2], rect.min[2], rect.max[2])>>]

\* rect.intersects(Rect::from_two_pos(a, b)); a comparison with NaN is false
Intersects(rect, a, b) ==
    /\ ~a.nan
    /\ ~b.nan
    /\ rect.min[1] <= Max(a.p[1], b.p[1])
    /\ Min(a.p[1], b.p[1]) <= rect.max[1]
    /\ rect.min[2] <= Max(a.p[2], b.p[2])
    /\ Min(a.p[2], b.p[2]) <= rect.max[2]

\* Shape::line_segment(points, (width, color))
LineSegment(a, b, width, color) ==
    [points |-> <<a.p, b.p>>, width |-> width, color |-> color]

(***************************************************************************)
(* The engine: FractalClockConfig, FractalClockRendering, FractalClock.    *)
(***************************************************************************)
\* The depth a new configuration starts with: 15, within the model's bound.
DefaultDepth == Min(ConfigDefaultDepth, MaxDepth)

\* impl Default for FractalClockConfig
DefaultConfig ==
    [zoom |-> 2, start_line_width |-> 5, depth |-> DefaultDepth,
     length_factor |-> 3, luminance_factor |-> Frac(1, 1), width_factor |-> 3,
     branch_color |-> DefaultBranchColor, hand_color |-> WHITE,
     rainbow_mode |-> TRUE, start_hsv |-> DefaultStartHsv, end_hsv |-> DefaultEndHsv]

\* FractalClockRendering::default(), and the empty vectors of FractalClock::default()
DefaultRendering ==
    [depth_colors |-> <<>>, nodes_buf1 |-> <<>>, nodes_buf2 |-> <<>>, shapes |-> <<>>]

\* impl Default for FractalClock; local_now is what Local::now() returns.
\* paint_time is 0 for Duration::ZERO and 1 for a measured duration.
DefaultClock(local_now) ==
    [paused |-> FALSE, time |-> local_now, config |-> DefaultConfig,
     line_count |-> 0, paint_time |-> 0, rendering |-> DefaultRendering,
     fullscreen |-> FALSE, transparent_background |-> TRUE]

\* FractalClock::compute_colors
ComputeColors(c) ==
    [c EXCEPT !.rendering.depth_colors = UpdateColors(c.config)]

\* A variant of draw_hands in which the hour hand leaves a node as well.
PushesNodeAll(i) == TRUE

\* if i < 2 { self.rendering.nodes_buf1.push(...) }, i counted from 0
PushesNode(i) == i < 2

\* FractalClock::draw_hands from the hand at index i on: the shapes pushed,
\* the lines counted and the nodes pushed to nodes_buf1
RECURSIVE DrawHandsFrom(_, _, _, _, _)
DrawHandsFrom(c, hands, from, rect, i) ==
    IF i > 3 THEN [shapes |-> <<>>, line_count |-> 0, nodes |-> <<>>]
    ELSE LET hand == hands[i]
             end == hand.vec
             screen_center == ToScreen(from, rect, <<0, 0>>)
             screen_end == ToScreen(from, rect, end)
             visible == Intersects(rect, screen_center, screen_end)
             rest == DrawHandsFrom(c, hands, from, rect, i + 1)
         IN  [shapes |->
                (IF visible
                 THEN <<LineSegment(screen_center, screen_end,
                                    Frac(c.config.start_line_width, 1),
                                    c.config.hand_color)>>
                 ELSE <<>>) \o rest.shapes,
              line_count |-> (IF visible THEN 1 ELSE 0) + rest.line_count,
              nodes |-> (IF PushesNode(i - 1) THEN <<[pos |-> end, dir |-> hand.vec]>>
                         ELSE <<>>) \o rest.nodes]

DrawHands(c, hands, from, rect) == DrawHandsFrom(c, hands, from, rect, 1)

\* The body of the two inner loops for one (rotor, node): the node pushed
\* to next_nodes, the line, and whether the line is pushed to shapes.
Branch(rotor, node, from, rect, width, color) ==
    LET new_dir == Rotate(rotor, node.dir)
        new_node == [pos |-> <<node.pos[1] + new_dir[1], node.pos[2] + new_dir[2]>>,
                     dir |-> new_dir]
        a == ToScreen(from, rect, node.pos)
        b == ToScreen(from, rect, new_node.pos)
    IN  [node |-> new_node,
         visible |-> Intersects(rect, a, b),
         line |-> LineSegment(a, b, width, color)]

\* for &rotor in hand_rotors { for &node in current_nodes.iter() { ... } }:
\* the results of the body in the order the loops run it
Branches(hand_rotors, current_nodes, from, rect, width, color) ==
    LET n == Len(current_nodes)
    IN  [k \in 1..(Len(hand_rotors) * n) |->
            Branch(hand_rotors[((k - 1) \div n) + 1], current_nodes[((k - 1) % n) + 1],
                   from, rect, width, color)]

IsVisible(branch) == branch.visible

\* The lines pushed to shapes among the results of the body.
PushedShapes(branches) ==
    LET shown == SelectSeq(branches, IsVisible)
    IN  [k \in 1..Len(shown) |-> shown[k].line]

\* FractalClock::draw_fractal_branches from level d on.  current_nodes and
\* next_nodes are the two buffers, in1 tells which of them is nodes_buf1;
\* counts lists the size of current_nodes before each level and at the end.
RECURSIVE BranchLevels(_, _, _, _, _, _, _, _, _)
BranchLevels(c, hand_rotors, from, rect, d, width, current_nodes, next_nodes, in1) ==
    IF d > Len(c.rendering.depth_colors)
    THEN [shapes |-> <<>>,
          nodes_buf1 |-> IF in1 THEN current_nodes ELSE next_nodes,
          nodes_buf2 |-> IF in1 THEN next_nodes ELSE current_nodes,
          counts |-> <<Len(current_nodes)>>]
    ELSE LET color == c.rendering.depth_colors[d]
             w == Frac(width.n * c.config.width_factor, width.d * 4)
             branches == Branches(hand_rotors, current_nodes, from, rect, w, color)
             pushed == [k \in 1..Len(branches) |-> branches[k].node]
             rest == BranchLevels(c, hand_rotors, from, rect, d + 1, w,
                                  pushed, current_nodes, ~in1)
         IN  [rest EXCEPT !.shapes = PushedShapes(branches) \o rest.shapes,
                          !.counts = <<Len(current_nodes)>> \o rest.counts]

\* FractalClock::draw_fractal_branches
DrawFractalBranches(c, hand_rotors, from, rect) ==
    BranchLevels(c, hand_rotors, from, rect, 1, Frac(c.config.start_line_width, 1),
                 c.rendering.nodes_buf1, c.rendering.nodes_buf2, TRUE)

\* A variant of paint that does not clear the buffers.
KeepBuffers(rendering) == rendering

\* shapes.clear(); nodes_buf1.clear(); nodes_buf2.clear() in paint
ClearBuffers(rendering) ==
    [rendering EXCEPT !.shapes = <<>>, !.nodes_buf1 = <<>>, !.nodes_buf2 = <<>>]

\* A variant of paint that never computes the schedule itself.
PaintColorsNever(c) == c

\* The first statement of paint: the schedule is computed when it is empty.
PaintColors(c) ==
    IF c.rendering.depth_colors = <<>> THEN ComputeColors(c) ELSE c

\* FractalClock::paint with clip rectangle rect: the engine afterwards, the
\* shapes handed to the painter, the lines counted for the hands alone and
\* the sizes of current_nodes level by level.
Paint(c, rect) ==
    LET c1 == PaintColors(c)
        from == FromRect(rect, c1.config.zoom)
        c2 == [c1 EXCEPT !.rendering = ClearBuffers(c1.rendering)]
        hands == CreateHands(c2)
        hand_rotors == CalculateHandRotors(hands)
        h == DrawHands(c2, hands, from, rect)
        c3 == [c2 EXCEPT !.rendering.nodes_buf1 = c2.rendering.nodes_buf1 \o h.nodes]
        f == DrawFractalBranches(c3, hand_rotors, from, rect)
    IN  [clock |-> [c3 EXCEPT !.line_count = h.line_count + Len(f.shapes),
                              !.rendering.nodes_buf1 = f.nodes_buf1,
                              !.rendering.nodes_buf2 = f.nodes_buf2,
                              !.rendering.shapes = <<>>],
         painted |-> c2.rendering.shapes \o h.shapes \o f.shapes,
         hand_lines |-> h.line_count,
         counts |-> f.counts]


(***************************************************************************)
(* Persistence (src/src/main.rs): eframe::set_value writes the serialized  *)
(* fields of the engine, eframe::get_value reads them back and the fields  *)
(* marked #[serde(skip)] take the Default of their type.                   *)
(***************************************************************************)
\* #[derive(serde::Serialize)] for FractalClock
Serialize(c) ==
    [paused |-> c.paused, config |-> c.config,
     fullscreen |-> c.fullscreen,
     transparent_background |-> c.transparent_background]

\* #[derive(serde::Deserialize)] for FractalClock
Deserialize(s) ==
    [paused |-> s.paused, time |-> Epoch, config |-> s.config,
     line_count |-> 0, paint_time |-> 0, rendering |-> DefaultRendering,
     fullscreen |-> s.fullscreen,
     transparent_background |-> s.transparent_background]

(***************************************************************************)
(* The values the widgets of options_ui are moved to.                      *)
(***************************************************************************)
Zooms == {0, 2, 3}
StartLineWidths == {5, 2}
Depths == 0..MaxDepth
LengthFactors == {3, 2}
LuminanceFactors == {Frac(0, 1), Frac(1, 16), Frac(1, 1)}
WidthFactors == {3, 2}
BranchColors == {DefaultBranchColor, WHITE}
HandColors == {WHITE, Color32(255, 0, 0, 255)}
StartHsvs == {DefaultStartHsv, <<1, 2, 2, 2>>}
EndHsvs == {DefaultEndHsv, <<0, 2, 1, 2>>}

(***************************************************************************)
(* The widgets of options_ui, each as the engine it leaves when the user   *)
(* changes it to v.                                                        *)
(***************************************************************************)
\* ui.checkbox(&mut self.paused, "Paused")
TogglePaused(c) == [c EXCEPT !.paused = ~c.paused]
SetZoom(c, v) == [c EXCEPT !.config.zoom = v]
SetStartLineWidth(c, v) == [c EXCEPT !.config.start_line_width = v]
SetDepth(c, v) == ComputeColors([c EXCEPT !.config.depth = v])
SetLengthFactor(c, v) == ComputeColors([c EXCEPT !.config.length_factor = v])
\* A variant of the luminance factor slider that does not call compute_colors.
SetLuminanceFactorOnly(c, v) == [c EXCEPT !.config.luminance_factor = v]
SetLuminanceFactor(c, v) == ComputeColors([c EXCEPT !.config.luminance_factor = v])
SetWidthFactor(c, v) == [c EXCEPT !.config.width_factor = v]
SetBranchColor(c, v) == ComputeColors([c EXCEPT !.config.branch_color = v])
SetHandColor(c, v) == [c EXCEPT !.config.hand_color = v]
ToggleRainbow(c) ==
    ComputeColors([c EXCEPT !.config.rainbow_mode = ~c.config.rainbow_mode])
SetStartHsv(c, v) == ComputeColors([c EXCEPT !.config.start_hsv = v])
SetEndHsv(c, v) == ComputeColors([c EXCEPT !.config.end_hsv = v])
ToggleFullscreen(c) == [c EXCEPT !.fullscreen = ~c.fullscreen]
ToggleTransparent(c) ==
    [c EXCEPT !.transparent_background = ~c.transparent_background]

(***************************************************************************)
(* State.                                                                  *)
(***************************************************************************)
VARIABLES
    clock,        \* WrapApp.clock, the FractalClock
    now,          \* the latest reading of the system clock (Local::now())
    storage,      \* the "fractal_clock" entry of eframe's storage, <<>> when absent
    pc,           \* where the frame is: "update", "paint", "options"
    repaint,      \* ctx.request_repaint() was called by this frame's update
    window,       \* the painter's clip rectangle
    canvas,       \* the shapes the latest paint handed to the painter
    inputs,       \* widget interactions so far
    restarted,    \* the application has been started again (it is once at most)
    last_sample,  \* the time the latest unpaused update read, -1 before it
    last_paint,   \* the latest paint: its configuration, time, rectangle, counts
    repeat,       \* how the latest paint compares with the one before it
    saved,        \* the persistent fields of the engine at the latest save, <<>> before it
    fresh         \* the engine was read from storage and no frame has run since

vars == <<clock, now, storage, pc, repaint, window, canvas, inputs, restarted,
          last_sample, last_paint, repeat, saved, fresh>>

NoPaint ==
    [valid |-> FALSE, config |-> DefaultConfig, time |-> Epoch,
     rect |-> ScreenRect(1, 1), paused |-> FALSE, line_count |-> 0,
     hand_lines |-> 0, schedule |-> <<>>, counts |-> <<>>, restarted |-> FALSE]

NoRepeat == [same_inputs |-> FALSE, same_output |-> FALSE, across_restart |-> FALSE]

\* The first start, with nothing in storage: WrapApp::new takes the default.
Init ==
    /\ now = ClockStart
    /\ clock = DefaultClock(ClockStart)
    /\ storage = <<>>
    /\ pc = "update"
    /\ repaint = FALSE
    /\ window = ScreenRect(2, 1)
    /\ canvas = <<>>
    /\ inputs = 0
    /\ restarted = FALSE
    /\ last_sample = -1
    /\ last_paint = NoPaint
    /\ repeat = NoRepeat
    /\ saved = <<>>
    /\ fresh = FALSE

\* A variant of update that reads the clock whether paused or not.
UpdateTimeAlways(c, local_now) == [c EXCEPT !.time = local_now]

\* FractalClock::update: the engine afterwards, when Local::now() is local_now
UpdateTime(c, local_now) == IF ~c.paused THEN [c EXCEPT !.time = local_now] ELSE c

\* FractalClock::update: whether ctx.request_repaint() is called
RequestsRepaint(c) == ~c.paused

\* FractalClock::update, called first in WrapApp::update.  The system clock
\* has moved on to t since it was last looked at.
Update ==
    /\ pc = "update"
    /\ pc' = "paint"
    /\ fresh' = FALSE
    /\ \E t \in ClockSamples :
         /\ t >= now
         /\ now' = t
         /\ clock' = UpdateTime(clock, t)
         /\ repaint' = RequestsRepaint(clock)
         /\ last_sample' = IF ~clock.paused THEN t ELSE last_sample
    /\ UNCHANGED <<storage, window, canvas, inputs, restarted, last_paint, repeat,
                   saved>>

\* FractalClock::ui, lines 170-180: paint on the painter's clip rectangle
PaintStep ==
    /\ pc = "paint"
    /\ pc' = "options"
    /\ \E p \in {Paint(clock, window)} :
         LET rect == window
             same == /\ last_paint.valid
                     /\ last_paint.config = clock.config
                     /\ last_paint.time = clock.time
                     /\ last_paint.rect = rect
         IN  /\ clock' = [p.clock EXCEPT !.paint_time = 1]
             /\ canvas' = p.painted
             /\ repeat' = [same_inputs |-> same,
                           same_output |-> /\ p.painted = canvas
                                           /\ p.clock.line_count = last_paint.line_count,
                           across_restart |-> last_paint.restarted # restarted]
             /\ last_paint' = [valid |-> TRUE, config |-> clock.config,
                               time |-> clock.time, rect |-> rect,
                               paused |-> clock.paused,
                               line_count |-> p.clock.line_count,
                               hand_lines |-> p.hand_lines,
                               schedule |-> p.clock.rendering.depth_colors,
                               counts |-> p.counts, restarted |-> restarted]
    /\ UNCHANGED <<now, storage, repaint, window, inputs, restarted, last_sample,
                   saved, fresh>>

\* options_ui in a frame in which the user changes one widget: the engine
\* becomes next.
Input(next) ==
    /\ pc = "options"
    /\ inputs < MaxInputs
    /\ pc' = "update"
    /\ inputs' = inputs + 1
    /\ clock' = next
    /\ UNCHANGED <<storage, repaint, window, canvas, restarted, last_sample,
                   last_paint, repeat, saved, fresh>>

\* options_ui in a frame without interaction
NoInput ==
    /\ pc = "options"
    /\ pc' = "update"
    /\ UNCHANGED <<clock, now, storage, repaint, window, canvas, inputs,
                   restarted, last_sample, last_paint, repeat, saved, fresh>>

InputPaused == Input(TogglePaused(clock)) /\ UNCHANGED now
InputZoom == \E v \in Zooms \ {clock.config.zoom} : Input(SetZoom(clock, v)) /\ UNCHANGED now
InputStartLineWidth ==
    \E v \in StartLineWidths \ {clock.config.start_line_width} :
        Input(SetStartLineWidth(clock, v)) /\ UNCHANGED now
InputDepth == \E v \in Depths \ {clock.config.depth} : Input(SetDepth(clock, v)) /\ UNCHANGED now
InputLengthFactor ==
    \E v \in LengthFactors \ {clock.config.length_factor} :
        Input(SetLengthFactor(clock, v)) /\ UNCHANGED now
InputLuminanceFactor ==
    \E v \in LuminanceFactors \ {clock.config.luminance_factor} :
        Input(SetLuminanceFactor(clock, v)) /\ UNCHANGED now
InputWidthFactor ==
    \E v \in WidthFactors \ {clock.config.width_factor} :
        Input(SetWidthFactor(clock, v)) /\ UNCHANGED now
InputBranchColor ==
    \E v \in BranchColors \ {clock.config.branch_color} :
        Input(SetBranchColor(clock, v)) /\ UNCHANGED now
InputHandColor ==
    \E v \in HandColors \ {clock.config.hand_color} : Input(SetHandColor(clock, v)) /\ UNCHANGED now
InputRainbow == Input(ToggleRainbow(clock)) /\ UNCHANGED now
\* the two Hsva buttons are shown only in rainbow mode
InputStartHsv ==
    /\ clock.config.rainbow_mode
    /\ \E v \in StartHsvs \ {clock.config.start_hsv} : Input(SetStartHsv(clock, v)) /\ UNCHANGED now
InputEndHsv ==
    /\ clock.config.rainbow_mode
    /\ \E v \in EndHsvs \ {clock.config.end_hsv} : Input(SetEndHsv(clock, v)) /\ UNCHANGED now
InputFullscreen == Input(ToggleFullscreen(clock)) /\ UNCHANGED now
InputTransparent == Input(ToggleTransparent(clock)) /\ UNCHANGED now

\* egui::reset_button(ui, self, "Reset"): enabled when the engine differs from
\* a new default one, which then replaces it
InputReset ==
    \E t \in ClockSamples :
        /\ t >= now
        /\ clock # DefaultClock(t)
        /\ now' = t
        /\ Input(DefaultClock(t))

\* WrapApp::save, called by eframe between frames (a save that no later start
\* of the application reads is left out)
Save ==
    /\ pc = "update"
    /\ ~restarted
    /\ storage' = <<Serialize(clock)>>
    /\ saved' = [paused |-> clock.paused, config |-> clock.config,
                 fullscreen |-> clock.fullscreen,
                 transparent_background |-> clock.transparent_background]
    /\ UNCHANGED <<clock, now, pc, repaint, window, canvas, inputs, restarted,
                   last_sample, last_paint, repeat, fresh>>

\* The application is started again: WrapApp::new reads the engine from
\* storage, or takes the default when storage holds none.
Restart ==
    /\ pc = "update"
    /\ ~restarted
    /\ restarted' = TRUE
    /\ repaint' = FALSE
    /\ fresh' = (storage # <<>>)
    /\ IF storage # <<>>
       THEN /\ clock' = Deserialize(storage[1])
            /\ now' = now
       ELSE \E t \in ClockSamples :
              /\ t >= now
              /\ now' = t
              /\ clock' = DefaultClock(t)
    /\ UNCHANGED <<storage, pc, window, canvas, inputs, last_sample, last_paint,
                   repeat, saved>>

\* The user resizes the window between two frames.
Resize ==
    /\ pc = "update"
    /\ inputs < MaxInputs
    /\ inputs' = inputs + 1
    /\ \E rect \in Rects \ {window} : window' = rect
    /\ UNCHANGED <<clock, now, storage, pc, repaint, canvas, restarted,
                   last_sample, last_paint, repeat, saved, fresh>>

Next ==
    \/ Update
    \/ PaintStep
    \/ NoInput
    \/ InputPaused
    \/ InputZoom
    \/ InputStartLineWidth
    \/ InputDepth
    \/ InputLengthFactor
    \/ InputLuminanceFactor
    \/ InputWidthFactor
    \/ InputBranchColor
    \/ InputHandColor
    \/ InputRainbow
    \/ InputStartHsv
    \/ InputEndHsv
    \/ InputFullscreen
    \/ InputTransparent
    \/ InputReset
    \/ Resize
    \/ Save
    \/ Restart

Spec == Init /\ [][Next]_vars

(***************************************************************************)
(* SpecRender: the application started on any configuration that earlier   *)
(* sessions can have left in storage, and run without interaction.         *)
(***************************************************************************)
RenderConfigs ==
    {[DefaultConfig EXCEPT !.zoom = z, !.start_line_width = s, !.depth = d,
                           !.length_factor = l, !.luminance_factor = f,
                           !.width_factor = w, !.branch_color = b,
                           !.rainbow_mode = r] :
        z \in Zooms, s \in StartLineWidths, d \in Depths, l \in LengthFactors,
        f \in LuminanceFactors, w \in WidthFactors, b \in BranchColors,
        r \in BOOLEAN}

InitRender ==
    /\ now = ClockStart
    /\ \E config \in RenderConfigs, paused \in BOOLEAN :
         /\ storage = <<[paused |-> paused, config |-> config,
                         fullscreen |-> FALSE, transparent_background |-> TRUE]>>
         /\ clock = Deserialize(storage[1])
    /\ pc = "update"
    /\ repaint = FALSE
    /\ window \in Rects
    /\ canvas = <<>>
    /\ inputs = 0
    /\ restarted = FALSE
    /\ last_sample = -1
    /\ last_paint = NoPaint
    /\ repeat = NoRepeat
    /\ saved = <<>>
    /\ fresh = TRUE

NextRender ==
    \/ Update
    \/ PaintStep
    \/ NoInput

SpecRender == InitRender /\ [][NextRender]_vars

(***************************************************************************)
(* SpecColors: update_colors applied once to an engine with any depth the  *)
(* slider allows.                                                          *)
(***************************************************************************)
\* Values of luminance_factor, from 0.0 to 1.0.
ScheduleLuminanceFactors ==
    {Frac(0, 1), Frac(1, 16), Frac(1, 4), Frac(1, 2), Frac(1, 1)}

ScheduleConfigs ==
    {[DefaultConfig EXCEPT !.depth = d, !.luminance_factor = f,
                           !.branch_color = b, !.rainbow_mode = r] :
        d \in 0..SliderMaxDepth, f \in ScheduleLuminanceFactors,
        b \in BranchColors, r \in BOOLEAN}

InitColors ==
    /\ now = ClockStart
    /\ \E config \in ScheduleConfigs :
         clock = [DefaultClock(ClockStart) EXCEPT !.config = config]
    /\ storage = <<>>
    /\ pc = "compute"
    /\ repaint = FALSE
    /\ window = ScreenRect(2, 1)
    /\ canvas = <<>>
    /\ inputs = 0
    /\ restarted = FALSE
    /\ last_sample = -1
    /\ last_paint = NoPaint
    /\ repeat = NoRepeat
    /\ saved = <<>>
    /\ fresh = FALSE

\* self.rendering.update_colors(&self.config)
ComputeStep ==
    /\ pc = "compute"
    /\ pc' = "computed"
    /\ clock' = ComputeColors(clock)
    /\ UNCHANGED <<now, storage, repaint, window, canvas, inputs, restarted,
                   last_sample, last_paint, repeat, saved, fresh>>

NextColors == ComputeStep

SpecColors == InitColors /\ [][NextColors]_vars

(***************************************************************************)
(* Properties.                                                             *)
(***************************************************************************)
\* The configuration of the scenario: zoom 0.5, depth 3, length factor 0.75,
\* width factor 0.75, luminance factor 1.0, rainbow off, branch colour
\* RGB(115, 186, 37).
ScenarioConfig(config) ==
    /\ config.zoom = 2
    /\ config.depth = 3
    /\ config.length_factor = 3
    /\ config.width_factor = 3
    /\ config.luminance_factor = Frac(1, 1)
    /\ ~config.rainbow_mode
    /\ config.branch_color = DefaultBranchColor

\* The latest paint rendered the scenario, paused at t = 0.
ScenarioPainted ==
    /\ last_paint.valid
    /\ ScenarioConfig(last_paint.config)
    /\ last_paint.paused
    /\ last_paint.time = 0

\* C1, as the code has it: a render of the scenario (paused at t = 0) emits
\* the 3 hand segments plus exactly 28 fractal segments, 4 + 8 + 16 over the
\* 3 depth levels: each level draws one segment per rotor and current node.
C1_ScenarioSegments ==
    ScenarioPainted =>
        /\ last_paint.hand_lines = 3
        /\ last_paint.line_count - last_paint.hand_lines = 28
        /\ last_paint.line_count = Len(canvas)

\* C1 as the specification states it: 3 hand segments plus exactly 14
\* fractal segments (2 + 4 + 8).
C1_ScenarioSegmentsAsStated ==
    ScenarioPainted =>
        /\ last_paint.hand_lines = 3
        /\ last_paint.line_count - last_paint.hand_lines = 14

\* The scenario has been rendered, with its 31 segments on the canvas.
C1_ScenarioRendered ==
    /\ pc = "options"
    /\ ScenarioPainted
    /\ Len(canvas) = 31

\* The visual luminance of a schedule entry of solid mode (Rec. 601 weights,
\* in thousandths of an 8-bit channel).
Luminance(color) == 299 * color.v[1] + 587 * color.v[2] + 114 * color.v[3]

\* update_colors has run in solid mode.
SolidComputed == pc = "computed" /\ ~clock.config.rainbow_mode

\* C2, as the code has it: in solid mode the luminance of consecutive
\* schedule entries never increases, luminance(d+1) <= luminance(d), for
\* every luminance factor from 0 to 1 and every depth from 0 to 20.
C2_LuminanceNonIncreasing ==
    SolidComputed =>
        LET colors == clock.rendering.depth_colors
        IN  \A d \in 1..(Len(colors) - 1) :
                Luminance(colors[d + 1]) <= Luminance(colors[d])

\* C2 as the specification states it: luminance(d+1) < luminance(d) for
\* every pair of adjacent levels.
C2_LuminanceStrictlyDecreasing ==
    SolidComputed =>
        LET colors == clock.rendering.depth_colors
        IN  \A d \in 1..(Len(colors) - 1) :
                Luminance(colors[d + 1]) < Luminance(colors[d])

\* A solid schedule at the largest depth that the luminance floor cut
\* short and whose entries do get darker.
C2_SolidDecay ==
    /\ SolidComputed
    /\ clock.config.depth = SliderMaxDepth
    /\ clock.config.luminance_factor = Frac(1, 2)
    /\ Len(clock.rendering.depth_colors) = 8
    /\ Luminance(clock.rendering.depth_colors[8]) <
           Luminance(clock.rendering.depth_colors[1])

\* C3 as the specification states it: whenever the engine is paused, its
\* time is the value the most recent unpaused update read from the system
\* clock.
C3_PausedTimeWasSampled == clock.paused => clock.time = last_sample

\* C4: the schedule a paint draws the branches with is the schedule that
\* update_colors computes from the configuration current at that paint.
C4_PaintUsesCurrentSchedule ==
    last_paint.valid => last_paint.schedule = UpdateColors(last_paint.config)

\* A paint after the luminance factor was changed, drawing with a schedule
\* that the change has shortened.
C4_PaintedAfterChange ==
    /\ pc = "options"
    /\ last_paint.valid
    /\ inputs > 0
    /\ last_paint.config.luminance_factor = Frac(1, 16)
    /\ last_paint.schedule # <<>>
    /\ Len(last_paint.schedule) < last_paint.config.depth

\* A step that is a call of FractalClock::update.
UpdateStep == pc = "update" /\ pc' = "paint"

\* A step of options_ui that changes the paused flag and does not reset the
\* engine (a reset brings paint_time back to zero).
PauseStep ==
    /\ pc = "options"
    /\ pc' = "update"
    /\ clock'.paused # clock.paused
    /\ clock'.paint_time = clock.paint_time

\* C5: every update call, when the engine is not paused, sets time to the
\* current system clock and requests a repaint, and when it is paused leaves
\* time unchanged and requests no repaint; paused is a flag with two values
\* and pausing or un-pausing changes that flag and nothing else.
C5_UpdateBehaviour ==
    /\ [](clock.paused \in BOOLEAN)
    /\ [][UpdateStep =>
            IF ~clock.paused
            THEN clock'.time = now' /\ repaint'
            ELSE clock'.time = clock.time /\ ~repaint']_vars
    /\ [][PauseStep => clock' = [clock EXCEPT !.paused = ~clock.paused]]_vars

\* An update has run on a paused engine after the system clock moved on:
\* time is still the last reading and no repaint is requested.
C5_PausedUpdate ==
    /\ pc = "paint"
    /\ clock.paused
    /\ ~repaint
    /\ clock.time = last_sample
    /\ now # clock.time

\* C6 as the specification states it: luminance_factor = 0 or depth = 0
\* gives an empty schedule, and whenever the schedule is empty a render emits
\* no fractal segment and its output is the 3 hand segments.
C6_EmptyScheduleOnlyHands ==
    last_paint.valid =>
        /\ (last_paint.config.luminance_factor = Frac(0, 1)
              \/ last_paint.config.depth = 0) => last_paint.schedule = <<>>
        /\ last_paint.schedule = <<>> =>
              /\ last_paint.line_count = last_paint.hand_lines
              /\ last_paint.hand_lines = 3
              /\ Len(canvas) = 3

\* The persistent fields of an engine.
Persistent(c) ==
    [paused |-> c.paused, config |-> c.config, fullscreen |-> c.fullscreen,
     transparent_background |-> c.transparent_background]

\* C7: an engine restored from storage has the configuration that was saved,
\* and its next render, at the same time and clip rectangle as the render
\* before, emits the same segments (endpoints, colour, width): the fields that
\* are not serialized do not change the result.
C7_RoundTrip ==
    /\ fresh => Persistent(clock) = saved
    /\ (saved # <<>> /\ repeat.across_restart /\ repeat.same_inputs)
          => repeat.same_output

\* A changed configuration was rendered with branches, saved and restored,
\* and rendered again at the same time on the same rectangle.
C7_RenderedAfterRestore ==
    /\ pc = "options"
    /\ saved # <<>>
    /\ repeat.across_restart
    /\ repeat.same_inputs
    /\ last_paint.config # DefaultConfig
    /\ last_paint.config = saved.config
    /\ Len(canvas) > 3

\* C8: two consecutive paint calls with the same configuration, the same
\* time and the same clip rectangle emit the same segments and the same line
\* count, whatever the first call left in the buffers.
C8_PaintIdempotent ==
    (repeat.same_inputs /\ ~repeat.across_restart) => repeat.same_output

\* The second of two such paints of a paused engine, with branches drawn,
\* after the system clock moved on.
C8_PaintedTwicePaused ==
    /\ pc = "options"
    /\ repeat.same_inputs
    /\ ~repeat.across_restart
    /\ last_paint.paused
    /\ now # last_paint.time
    /\ Len(canvas) > 3

\* C9: in a render the current node set holds exactly 2 * 2^d nodes after d
\* depth levels, culled or not, for every d from 0 to the schedule's length.
C9_NodeCounts ==
    last_paint.valid =>
        /\ Len(last_paint.counts) = Len(last_paint.schedule) + 1
        /\ \A d \in 0..Len(last_paint.schedule) :
               last_paint.counts[d + 1] = 2 * Pow(2, d)

\* A render over MaxDepth levels in which some segment was culled.
C9_FullDepthCulled ==
    /\ last_paint.valid
    /\ last_paint.config.zoom # 0
    /\ Len(last_paint.schedule) = MaxDepth
    /\ last_paint.counts[MaxDepth + 1] = 2 * Pow(2, MaxDepth)
    /\ last_paint.line_count < 3 + 4 * (Pow(2, MaxDepth) - 1)

\* b^e, or cap when b^e is larger
RECURSIVE SatPow(_, _, _)
SatPow(b, e, cap) == IF e = 0 THEN 1 ELSE Min(cap, b * SatPow(b, e - 1, cap))

\* 0.7 * f^k >= 0.5 / 255, that is 357 * n^k >= d^k for f = n/d (exact for
\* the numerators 0 and 1 and for f = 1).
LevelVisible(f, k) == 357 * SatPow(f.n, k, 358) >= SatPow(f.d, k, 358)

\* The smaller of depth and the number of leading visible levels.
VisibleLevels(f, depth) ==
    Cardinality({k \in 1..depth : \A j \in 1..k : LevelVisible(f, j)})

\* C10: in solid mode and in rainbow mode alike the schedule's length is the
\* smaller of config.depth and the number of leading levels k with
\* 0.7 * luminance_factor^k >= 0.5/255; it never exceeds config.depth and is
\* the same in both modes.
C10_ScheduleLength ==
    pc = "computed" =>
        LET config == clock.config
            other == [config EXCEPT !.rainbow_mode = ~config.rainbow_mode]
            length == Len(clock.rendering.depth_colors)
        IN  /\ length = VisibleLevels(config.luminance_factor, config.depth)
            /\ length <= config.depth
            /\ length = Len(UpdateColors(other))

\* A rainbow schedule cut short by the luminance floor.
C10_RainbowTruncated ==
    /\ pc = "computed"
    /\ clock.config.rainbow_mode
    /\ clock.rendering.depth_colors # <<>>
    /\ Len(clock.rendering.depth_colors) < clock.config.depth

=============================================================================
